---- MODULE Spec2Model ----
(***************************************************************************)
(* Weather pipeline: HTTP client with two retry layers, per-city fetch     *)
(* workers under a bounded thread pool, hourly combination and daily       *)
(* aggregation, persistence of the two tables.                             *)
(*                                                                         *)
(* Sources: src/fetch_weather.py, src/process_weather.py,                  *)
(* scripts/run_pipeline.py of cloud_weather_project.                       *)
(***************************************************************************)
EXTENDS Integers, Sequences, FiniteSets, TLC

VARIABLES
    locations,  \* run_pipeline: the configured location names, in file order
    task,       \* per task index: "pending", "running" or "done"
    result,     \* per task index: what _worker_fetch_city produced
    rawFiles,   \* names of the raw JSON files written by save_raw_json
    pc,         \* position of run_pipeline's main thread
    hourly_df,  \* run_pipeline's canonical hourly table
    daily_df,   \* run_pipeline's daily summary
    sink,       \* processed files written so far: file name -> rows
    call        \* a single function call under test (function-level specs)

vars == <<locations, task, result, rawFiles, pc, hourly_df, daily_df, sink, call>>

----------------------------------------------------------------------------
(* Bounds of the model *)

MaxLocations == 5       \* configured locations in the pool specification
MaxHour == 2            \* hours 0..MaxHour occur in payloads
MaxRows == 2            \* rows of one archive payload; a forecast has one less
MaxScriptLen == 3       \* length of an arbitrary endpoint script
MaxRateLimited == 8     \* longest run of 429 answers before a 200
MaxNameLen == 2         \* characters of a location name in the names specification

(* The model's day: hours 0..HoursPerDay-1 fall on date 0, and so on. *)
HoursPerDay == 2

----------------------------------------------------------------------------
(* Generic helpers *)

Range(s) == {s[i] : i \in DOMAIN s}

SeqUpTo(S, n) == UNION {[1..k -> S] : k \in 0..n}

Min2(a, b) == IF a <= b THEN a ELSE b

RECURSIVE Flatten(_)
Flatten(ss) == IF ss = <<>> THEN <<>> ELSE Head(ss) \o Flatten(Tail(ss))

(* Python str comparison: lexicographic by code point. *)
RECURSIVE StrLess(_, _)
StrLess(a, b) ==
    IF b = <<>> THEN FALSE
    ELSE IF a = <<>> THEN TRUE
    ELSE IF Head(a) # Head(b) THEN Head(a) < Head(b)
    ELSE StrLess(Tail(a), Tail(b))

----------------------------------------------------------------------------
(* HTTP client: src/fetch_weather.py *)

(* What one wire request can meet: an HTTP status, or no response at all. *)
ConnErr == 0     \* connection failure
ReadErr == 1     \* read timeout
Statuses == {200, 404, 429, 500}
Events == Statuses \cup {ConnErr, ReadErr}

(* Retry(...) of _build_session *)
RetryTotal == 6
RetryConnect == 3
RetryRead == 3
RetryStatus == 6
StatusForcelist == {429, 500, 502, 503, 504}
RaiseOnStatus == FALSE

(* range(1, 8) of _get_json *)
MaxAttempts == 7

(* An endpoint answers its n-th wire request with script[n], and repeats the
   last entry of its script from then on. *)
EventAt(script, n) == script[Min2(n, Len(script))]

(* One _SESSION.get: the adapter re-sends the request as Retry allows.
   n is the index of the wire request being sent.  The result names the last
   wire request sent, the status of the response handed back, and whether the
   adapter raised instead (retries exhausted on a connection or read error,
   or on a status when raise_on_status is set). *)
RECURSIVE Send(_, _, _, _, _, _)
Send(script, n, total, connect, read, status) ==
    LET e == EventAt(script, n) IN
    IF e = ConnErr THEN
        IF total - 1 < 0 \/ connect - 1 < 0
        THEN [raised |-> TRUE, status |-> e, wire |-> n]
        ELSE Send(script, n + 1, total - 1, connect - 1, read, status)
    ELSE IF e = ReadErr THEN
        IF total - 1 < 0 \/ read - 1 < 0
        THEN [raised |-> TRUE, status |-> e, wire |-> n]
        ELSE Send(script, n + 1, total - 1, connect, read - 1, status)
    ELSE IF e \in StatusForcelist THEN
        IF total - 1 < 0 \/ status - 1 < 0
        THEN [raised |-> RaiseOnStatus, status |-> e, wire |-> n]
        ELSE Send(script, n + 1, total - 1, connect, read, status - 1)
    ELSE [raised |-> FALSE, status |-> e, wire |-> n]

SessionGet(script, n) ==
    Send(script, n, RetryTotal, RetryConnect, RetryRead, RetryStatus)

(* resp.raise_for_status() raises HTTPError for 4xx and 5xx. *)
RaisesForStatus(status) == status >= 400 /\ status < 600

(* Outcomes of _get_json.  wire counts the wire requests issued, calls the
   _SESSION.get calls made. *)
Returned(body, wire, calls) ==
    [ok |-> TRUE, body |-> body, wire |-> wire, calls |-> calls]
Raised(wire, calls) ==
    [ok |-> FALSE, body |-> <<>>, wire |-> wire, calls |-> calls]

(* A variant of the loop that does not leave on success: the body is only
   returned by the statements after the loop. *)
RECURSIVE GetJsonLoopNoReturn(_, _, _, _)
GetJsonLoopNoReturn(ep, attempt, wire, calls) ==
    LET resp == SessionGet(ep.script, wire + 1) IN
    IF resp.raised THEN Raised(resp.wire, calls + 1)
    ELSE IF attempt < MaxAttempts
    THEN GetJsonLoopNoReturn(ep, attempt + 1, resp.wire, calls + 1)
    ELSE IF RaisesForStatus(resp.status)
    THEN Raised(resp.wire, calls + 1)
    ELSE Returned(ep.payload, resp.wire, calls + 1)

(* The for loop of _get_json from iteration `attempt` on, `wire` wire requests
   and `calls` session calls having been made before it. *)
RECURSIVE GetJsonLoop(_, _, _, _)
GetJsonLoop(ep, attempt, wire, calls) ==
    LET resp == SessionGet(ep.script, wire + 1) IN
    IF resp.raised THEN
        \* ConnectionError and the like are not HTTPError: they propagate
        Raised(resp.wire, calls + 1)
    ELSE IF resp.status = 429 THEN
        IF attempt < MaxAttempts
        THEN GetJsonLoop(ep, attempt + 1, resp.wire, calls + 1)
        ELSE \* loop exhausted: the raise_for_status() after the loop
             IF RaisesForStatus(resp.status)
             THEN Raised(resp.wire, calls + 1)
             ELSE Returned(ep.payload, resp.wire, calls + 1)
    ELSE IF ~RaisesForStatus(resp.status) THEN
        Returned(ep.payload, resp.wire, calls + 1)
    ELSE IF attempt >= MaxAttempts THEN
        Raised(resp.wire, calls + 1)
    ELSE GetJsonLoop(ep, attempt + 1, resp.wire, calls + 1)

GetJson(ep) == GetJsonLoop(ep, 1, 0, 0)

----------------------------------------------------------------------------
(* Payloads and tables: src/process_weather.py *)

(* to_datetime(..., errors="coerce") turns an unparseable string into NaT. *)
NaT == -1

(* A raw time string: hour h of the series, written with or without a
   trailing "Z"; h < 0 stands for a string that is no timestamp. *)
RawTimes ==
    {[h |-> h, z |-> FALSE] : h \in 0..MaxHour}
        \cup {[h |-> 0, z |-> TRUE], [h |-> -1, z |-> FALSE]}

(* pd.to_datetime(time_col, errors="coerce", utc=True), one entry *)
ToDatetime(raw) == IF raw.h \in 0..MaxHour THEN raw.h ELSE NaT

(* .dt.date of a UTC timestamp; NaT stays NaT *)
DateOf(t) == IF t = NaT THEN NaT ELSE t \div HoursPerDay

(* Two distinct temperature readings: the code reads a reading only to
   carry it along and to aggregate it. *)
Temps == {1, 2}

RawRows(temps) == [time : RawTimes, temperature_2m : temps]

(* A JSON payload: `other` says it has keys besides "hourly"; has_hourly says
   it has a non-empty "hourly" block, whose aligned arrays are `hourly`. *)
Payload(other, has_hourly, rows) ==
    [other |-> other, has_hourly |-> has_hourly, hourly |-> rows]

EmptyPayload == Payload(FALSE, FALSE, <<>>)     \* {}
NoHourlyPayload == Payload(TRUE, FALSE, <<>>)   \* e.g. {"error": true}

Payloads(temps, maxRows) ==
    {EmptyPayload, NoHourlyPayload}
        \cup {Payload(TRUE, TRUE, rows) : rows \in SeqUpTo(RawRows(temps), maxRows)}

(* Python truthiness of a dict *)
Truthy(raw) == raw.other \/ raw.has_hourly

(* A DataFrame: `cols` says whether it has the time and city columns (the
   frame pd.DataFrame() has no columns at all), `rows` are its rows. *)
DataFrame(cols, rows) == [cols |-> cols, rows |-> rows]
NoColumnsFrame == DataFrame(FALSE, <<>>)

HourlyToDf(raw, city) ==
    IF ~raw.has_hourly THEN NoColumnsFrame
    ELSE DataFrame(TRUE,
            [i \in 1..Len(raw.hourly) |->
                [city |-> city,
                 time |-> ToDatetime(raw.hourly[i].time),
                 temperature_2m |-> raw.hourly[i].temperature_2m]])

(* pd.concat(dfs, ignore_index=True) *)
Concat(dfs) ==
    DataFrame(\E i \in DOMAIN dfs : dfs[i].cols,
              Flatten([i \in DOMAIN dfs |-> dfs[i].rows]))

SameKey(a, b) == a.city = b.city /\ a.time = b.time

(* drop_duplicates(subset=["city", "time"]) without the keep="first" rule:
   the last row of each key is kept. *)
DropDuplicatesKeepLast(rows) ==
    LET keep == {i \in DOMAIN rows :
                    ~\E j \in DOMAIN rows : j > i /\ SameKey(rows[j], rows[i])}
        F[i \in 0..Len(rows)] ==
            IF i = 0 THEN <<>>
            ELSE IF i \in keep THEN Append(F[i - 1], rows[i]) ELSE F[i - 1]
    IN F[Len(rows)]

(* No deduplication at all. *)
DropDuplicatesNone(rows) == rows

(* drop_duplicates(subset=["city", "time"]): the first row of each key is
   kept (keep="first"); NaT equals NaT. *)
DropDuplicates(rows) ==
    LET keep == {i \in DOMAIN rows :
                    ~\E j \in DOMAIN rows : j < i /\ SameKey(rows[j], rows[i])}
        F[i \in 0..Len(rows)] ==
            IF i = 0 THEN <<>>
            ELSE IF i \in keep THEN Append(F[i - 1], rows[i]) ELSE F[i - 1]
    IN F[Len(rows)]

(* Order of timestamps under sort_values: ascending, NaT last. *)
TimeLess(a, b) == a # NaT /\ (b = NaT \/ a < b)

(* Strict row order for sort_values(by). *)
RowLess(by, a, b) ==
    IF by = "time" THEN TimeLess(a.time, b.time)
    ELSE \* by = ["city", "time"]
         \/ StrLess(a.city, b.city)
         \/ a.city = b.city /\ TimeLess(a.time, b.time)

RECURSIVE InsertRow(_, _, _)
InsertRow(by, x, s) ==
    IF s = <<>> THEN <<x>>
    ELSE IF RowLess(by, x, s[Len(s)]) 
         THEN Append(InsertRow(by, x, SubSeq(s, 1, Len(s) - 1)), s[Len(s)])
         ELSE Append(s, x)

(* sort_values with the city key forgotten. *)
RECURSIVE SortValuesTimeOnly(_, _)
SortValuesTimeOnly(by, rows) ==
    IF rows = <<>> THEN <<>>
    ELSE InsertRow("time", rows[Len(rows)],
                   SortValuesTimeOnly(by, SubSeq(rows, 1, Len(rows) - 1)))

(* df.sort_values(by): rows in ascending key order, NaT last, rows of equal
   key in their original order. *)
RECURSIVE SortValues(_, _)
SortValues(by, rows) ==
    IF rows = <<>> THEN <<>>
    ELSE InsertRow(by, rows[Len(rows)],
                   SortValues(by, SubSeq(rows, 1, Len(rows) - 1)))

(* Outcome of a function that may raise. *)
Ok(df) == [raised |-> FALSE, df |-> df]
Raise == [raised |-> TRUE, df |-> NoColumnsFrame]

(* combine_hourly.  A frame without columns has no "city"/"time" to
   deduplicate or sort on: drop_duplicates/sort_values raise KeyError. *)
CombineHourly(raw_archive, raw_forecast, city) ==
    LET dfs == (IF Truthy(raw_archive)
                THEN <<HourlyToDf(raw_archive, city)>> ELSE <<>>)
               \o (IF Truthy(raw_forecast)
                   THEN <<HourlyToDf(raw_forecast, city)>> ELSE <<>>)
        out == Concat(dfs)
    IN  IF dfs = <<>> THEN Ok(NoColumnsFrame)
        ELSE IF ~out.cols THEN Raise
        ELSE Ok(DataFrame(TRUE, SortValues("time", DropDuplicates(out.rows))))

RECURSIVE SumOf(_)
SumOf(s) == IF s = <<>> THEN 0 ELSE Head(s) + SumOf(Tail(s))

MinOf(S) == CHOOSE x \in S : \A y \in S : x <= y
MaxOf(S) == CHOOSE x \in S : \A y \in S : x >= y

(* Group keys in ascending (city, date) order, as groupby(sort=True) lists
   them. *)
KeyLess(a, b) ==
    StrLess(a.city, b.city) \/ (a.city = b.city /\ a.date < b.date)

RECURSIVE SortedKeys(_)
SortedKeys(K) ==
    IF K = {} THEN <<>>
    ELSE LET m == CHOOSE k \in K : \A o \in K \ {k} : KeyLess(k, o)
         IN <<m>> \o SortedKeys(K \ {m})

(* Grouping by the timestamp instead of its date. *)
GroupKeyByTime(r) == [city |-> r.city, date |-> r.time]

(* The group key of an hourly row: its city and the date of its time. *)
GroupKey(r) == [city |-> r.city, date |-> DateOf(r.time)]

(* One row of the daily summary: the aggregates of a group.  The mean is
   kept as the pair <<sum, count>>. *)
Aggregate(key, temps) ==
    [city |-> key.city, date |-> key.date,
     temperature_2m_mean |-> <<SumOf(temps), Len(temps)>>,
     temperature_2m_min |-> MinOf(Range(temps)),
     temperature_2m_max |-> MaxOf(Range(temps))]

(* The temperatures of the rows of `rows` whose group key is `key`. *)
GroupTemps(rows, key) ==
    LET F[i \in 0..Len(rows)] ==
            IF i = 0 THEN <<>>
            ELSE IF GroupKey(rows[i]) = key
                 THEN Append(F[i - 1], rows[i].temperature_2m)
                 ELSE F[i - 1]
    IN F[Len(rows)]

(* summarize_daily: groupby(["city", "date"]).agg(...).reset_index().
   groupby drops the rows whose key is null (dropna=True). *)
SummarizeDaily(rows) ==
    IF rows = <<>> THEN rows
    ELSE LET keys == {GroupKey(rows[i]) : i \in DOMAIN rows}
             valid == {k \in keys : k.date # NaT}
             order == SortedKeys(valid)
         IN [g \in DOMAIN order |-> Aggregate(order[g], GroupTemps(rows, order[g]))]

----------------------------------------------------------------------------
(* Raw files: save_raw_json of src/fetch_weather.py *)

Lower(c) == IF c \in 65..90 THEN c + 32 ELSE c

(* city.lower().replace(" ", "_") *)
SafeCity(city) ==
    [i \in DOMAIN city |-> IF Lower(city[i]) = 32 THEN 95 ELSE Lower(city[i])]

(* The file name of a payload; start and end are the run's date window,
   the same for every task of a run. *)
RawFileName(city, kind) == [city |-> SafeCity(city), kind |-> kind]

----------------------------------------------------------------------------
(* The per-city worker: scripts/run_pipeline.py *)

(* An endpoint: how it answers successive wire requests, and the JSON body
   of its 200 answers. *)
Endpoint(script, payload) == [script |-> script, payload |-> payload]

WorkerRaised(files) == [kind |-> "raised", rows |-> <<>>, files |-> files]
WorkerNone(files) == [kind |-> "none", rows |-> <<>>, files |-> files]
WorkerFrame(rows, files) == [kind |-> "df", rows |-> rows, files |-> files]

(* _worker_fetch_city: fetch archive, fetch forecast, save both raw
   payloads, combine; None when the combined frame is empty.  An exception
   of any step leaves the function at that step. *)
WorkerFetchCity(name, archiveEp, forecastEp) ==
    LET archive == GetJson(archiveEp)
        forecast == GetJson(forecastEp)
        files == {RawFileName(name, "archive"), RawFileName(name, "forecast")}
        hourly == CombineHourly(archive.body, forecast.body, name)
    IN  IF ~archive.ok THEN WorkerRaised({})
        ELSE IF ~forecast.ok THEN WorkerRaised({})
        ELSE IF hourly.raised THEN WorkerRaised(files)
        ELSE IF hourly.df.rows = <<>> THEN WorkerNone(files)
        ELSE WorkerFrame(hourly.df.rows, files)

----------------------------------------------------------------------------
(* run_pipeline: scripts/run_pipeline.py *)

(* ThreadPool(processes=4) *)
PoolSize == 4

Tasks == DOMAIN locations

Running == {i \in Tasks : task[i] = "running"}

(* No limit on the threads: every ready task is started. *)
PoolAlwaysFree == TRUE

(* The scheduler hands a ready task to the pool only while fewer than
   PoolSize tasks are running. *)
PoolHasFreeThread == Cardinality(Running) < PoolSize

Unset == [kind |-> "unset", rows |-> <<>>]

(* What the upstream API may answer in a run: the endpoints a location's
   archive request and forecast request may meet. *)
Api(archive, forecast) == [archive |-> archive, forecast |-> forecast]

(* Endpoints that answer 200 at once with one of `payloads`, and one that
   answers 404 to every request. *)
Endpoints(payloads) ==
    {Endpoint(<<200>>, p) : p \in payloads} \cup {Endpoint(<<404>>, EmptyPayload)}

(* all_hourly = [df for df in results if df is not None], in task order *)
AllHourly(results) ==
    LET F[i \in 0..Len(results)] ==
            IF i = 0 THEN <<>>
            ELSE IF results[i].kind = "df"
                 THEN Append(F[i - 1], results[i].rows)
                 ELSE F[i - 1]
    IN F[Len(results)]

(* pd.concat(all_hourly).sort_values(["city", "time"]).reset_index() *)
CanonicalHourly(all_hourly) ==
    SortValues("citytime", Flatten(all_hourly))

(* A pool thread takes a pending task. *)
WorkerStart(i) ==
    /\ pc = "compute"
    /\ task[i] = "pending"
    /\ PoolHasFreeThread
    /\ task' = [task EXCEPT ![i] = "running"]
    /\ UNCHANGED <<locations, result, rawFiles, pc, hourly_df, daily_df, sink, call>>

(* What _worker_fetch_city can produce for each of `names`, over every
   pair of endpoints of the API. *)
WorkerOutcomes(api, names) ==
    [name \in names |->
        {WorkerFetchCity(name, archiveEp, forecastEp) :
            archiveEp \in api.archive, forecastEp \in api.forecast}]

(* A running task runs _worker_fetch_city to its end against what the API
   answers for its location: one of `outcomes` for the location's name. *)
WorkerFinish(i, outcomes) ==
    /\ task[i] = "running"
    /\ \E r \in outcomes[locations[i]] :
          /\ result' = [result EXCEPT ![i] = [kind |-> r.kind, rows |-> r.rows]]
          /\ rawFiles' = rawFiles \cup r.files
    /\ task' = [task EXCEPT ![i] = "done"]
    /\ UNCHANGED <<locations, pc, hourly_df, daily_df, sink, call>>

(* compute(tasks) re-raises a task's exception in the main thread: the
   run ends with a traceback and a non-zero exit status. *)
ComputeRaise ==
    /\ pc = "compute"
    /\ \E i \in Tasks : task[i] = "done" /\ result[i].kind = "raised"
    /\ pc' = "raised"
    /\ UNCHANGED <<locations, task, result, rawFiles, hourly_df, daily_df, sink, call>>

(* Gathering that treats a failed task like one that returned None. *)
GatherDropFailed ==
    /\ pc = "compute"
    /\ \A i \in Tasks : task[i] = "done"
    /\ LET all_hourly == AllHourly(result)
       IN IF all_hourly = <<>>
          THEN pc' = "exit1" /\ UNCHANGED hourly_df
          ELSE pc' = "save_hourly" /\ hourly_df' = CanonicalHourly(all_hourly)
    /\ UNCHANGED <<locations, task, result, rawFiles, daily_df, sink, call>>

(* Gathering without the "No data fetched" exit. *)
GatherNoExit ==
    /\ pc = "compute"
    /\ \A i \in Tasks : task[i] = "done" /\ result[i].kind # "raised"
    /\ hourly_df' = CanonicalHourly(AllHourly(result))
    /\ pc' = "save_hourly"
    /\ UNCHANGED <<locations, task, result, rawFiles, daily_df, sink, call>>

(* compute(tasks) returns once every task has returned; the None results
   are dropped; with nothing left the run exits with status 1; otherwise the
   canonical hourly table is built. *)
Gather ==
    /\ pc = "compute"
    /\ \A i \in Tasks : task[i] = "done" /\ result[i].kind # "raised"
    /\ LET all_hourly == AllHourly(result)
       IN IF all_hourly = <<>>
          THEN pc' = "exit1" /\ UNCHANGED hourly_df
          ELSE pc' = "save_hourly" /\ hourly_df' = CanonicalHourly(all_hourly)
    /\ UNCHANGED <<locations, task, result, rawFiles, daily_df, sink, call>>

(* save_parquet(hourly_df, hourly_path) *)
SaveHourly ==
    /\ pc = "save_hourly"
    /\ sink' = ("hourly.parquet" :> hourly_df) @@ sink
    /\ pc' = "save_daily"
    /\ UNCHANGED <<locations, task, result, rawFiles, hourly_df, daily_df, call>>

(* daily_df = summarize_daily(hourly_df); save_parquet(daily_df, daily_path) *)
SaveDaily ==
    /\ pc = "save_daily"
    /\ daily_df' = SummarizeDaily(hourly_df)
    /\ sink' = ("daily_summary.parquet" :> daily_df') @@ sink
    /\ pc' = "save_csv"
    /\ UNCHANGED <<locations, task, result, rawFiles, hourly_df, call>>

(* save_csv of both tables *)
SaveCsv ==
    /\ pc = "save_csv"
    /\ sink' = ("hourly.csv" :> hourly_df) @@ ("daily_summary.csv" :> daily_df) @@ sink
    /\ pc' = "plots"
    /\ UNCHANGED <<locations, task, result, rawFiles, hourly_df, daily_df, call>>

(* plots and the optional upload, which read the tables and the files *)
Finish ==
    /\ pc = "plots"
    /\ pc' = "done"
    /\ UNCHANGED <<locations, task, result, rawFiles, hourly_df, daily_df, sink, call>>

(* The exit status of the process once run_pipeline is over. *)
Terminated == pc \in {"raised", "exit1", "done"}
ExitStatus == IF pc = "done" THEN 0 ELSE 1

PipelineStep(outcomes) ==
    \/ \E i \in Tasks : WorkerStart(i)
    \/ \E i \in Tasks : WorkerFinish(i, outcomes)
    \/ ComputeRaise
    \/ Gather
    \/ SaveHourly
    \/ SaveDaily
    \/ SaveCsv
    \/ Finish

NoCall == [fn |-> "none"]

(* The state as run_pipeline reaches compute(): one pending task per
   configured location, nothing fetched, nothing written. *)
PipelineInit(locs) ==
    /\ locations = locs
    /\ task = [i \in DOMAIN locs |-> "pending"]
    /\ result = [i \in DOMAIN locs |-> Unset]
    /\ rawFiles = {}
    /\ pc = "compute"
    /\ hourly_df = <<>>
    /\ daily_df = <<>>
    /\ sink = <<>>
    /\ call = NoCall

----------------------------------------------------------------------------
(* Spec: the pipeline under the pool, up to MaxLocations locations, against
   an API with few distinct answers. *)

LocationName(i) == <<64 + i>>

OneRow == <<[time |-> [h |-> 0, z |-> FALSE], temperature_2m |-> 1]>>

PoolApi ==
    Api(Endpoints({EmptyPayload, NoHourlyPayload, Payload(TRUE, TRUE, OneRow)}),
        Endpoints({EmptyPayload, NoHourlyPayload}))

Init ==
    \E n \in 0..MaxLocations :
        PipelineInit([i \in 1..n |-> LocationName(i)])

PoolOutcomes ==
    WorkerOutcomes(PoolApi, {LocationName(i) : i \in 1..MaxLocations})

Next == PipelineStep(PoolOutcomes)

Spec == Init /\ [][Next]_vars

----------------------------------------------------------------------------
(* SpecData: the pipeline over few locations, against an API whose payloads
   range over every short series of raw times. *)

(* The configurations: "Ab" and "B" alone, in both orders, and a name
   configured twice. *)
DataLocationLists ==
    {<<>>, << <<65, 98>> >>, << <<66>> >>,
     << <<65, 98>>, <<66>> >>, << <<66>>, <<65, 98>> >>, << <<66>>, <<66>> >>}

(* Archive answers carry the reading 1, forecast answers the reading 2. *)
DataApi ==
    Api(Endpoints(Payloads({1}, MaxRows)), Endpoints(Payloads({2}, MaxRows - 1)))

InitData ==
    \E locs \in DataLocationLists : PipelineInit(locs)

DataOutcomes ==
    WorkerOutcomes(DataApi, UNION {Range(locs) : locs \in DataLocationLists})

NextData == PipelineStep(DataOutcomes)

SpecData == InitData /\ [][NextData]_vars

----------------------------------------------------------------------------
(* SpecNames: the pipeline over two locations of different names, the names
   ranging over the short strings of "A", "a", " " and "_". *)

NameChars == {32, 65, 95, 97}

LocationNames == SeqUpTo(NameChars, MaxNameLen) \ {<<>>}

InitNames ==
    \E n1 \in LocationNames :
        \E n2 \in LocationNames \ {n1} : PipelineInit(<<n1, n2>>)

NamesOutcomes == WorkerOutcomes(PoolApi, LocationNames)

NextNames == PipelineStep(NamesOutcomes)

SpecNames == InitNames /\ [][NextNames]_vars

----------------------------------------------------------------------------
(* Function-level specifications: one call of a function on inputs drawn
   from bounded sets.  The pipeline's variables stay at their initial
   values. *)

PipelineUnchanged ==
    UNCHANGED <<locations, task, result, rawFiles, pc, hourly_df, daily_df, sink>>

(* SpecHttp: one _get_json call against a scripted endpoint. *)

(* k answers 429, then 200 *)
RateLimited(k) == [i \in 1..(k + 1) |-> IF i <= k THEN 429 ELSE 200]

HttpScripts ==
    (SeqUpTo(Events, MaxScriptLen) \ {<<>>})
        \cup {RateLimited(k) : k \in 0..MaxRateLimited}

HttpBodies == {NoHourlyPayload, Payload(TRUE, TRUE, OneRow)}

InitHttp ==
    /\ \E script \in HttpScripts, body \in HttpBodies :
          call = [fn |-> "_get_json", ep |-> Endpoint(script, body),
                  done |-> FALSE, ret |-> Raised(0, 0)]
    /\ locations = <<>>
    /\ task = <<>> /\ result = <<>> /\ rawFiles = {} /\ pc = "compute"
    /\ hourly_df = <<>> /\ daily_df = <<>> /\ sink = <<>>

CallGetJson ==
    /\ call.fn = "_get_json"
    /\ ~call.done
    /\ call' = [call EXCEPT !.done = TRUE, !.ret = GetJson(call.ep)]
    /\ PipelineUnchanged

NextHttp == CallGetJson

SpecHttp == InitHttp /\ [][NextHttp]_vars

(* SpecWorker: one _worker_fetch_city call for a location whose two
   endpoints answer with any pair of payloads, of any readings. *)

WorkerNames == {<<65, 98>>}

WorkerApi ==
    Api(Endpoints(Payloads(Temps, MaxRows)), Endpoints(Payloads(Temps, MaxRows - 1)))

InitWorker ==
    /\ \E name \in WorkerNames,
          archiveEp \in WorkerApi.archive, forecastEp \in WorkerApi.forecast :
          call = [fn |-> "_worker_fetch_city", name |-> name,
                  archive |-> archiveEp, forecast |-> forecastEp,
                  done |-> FALSE, ret |-> WorkerNone({})]
    /\ locations = <<>>
    /\ task = <<>> /\ result = <<>> /\ rawFiles = {} /\ pc = "compute"
    /\ hourly_df = <<>> /\ daily_df = <<>> /\ sink = <<>>

CallWorker ==
    /\ call.fn = "_worker_fetch_city"
    /\ ~call.done
    /\ call' = [call EXCEPT
                  !.done = TRUE,
                  !.ret = WorkerFetchCity(call.name, call.archive, call.forecast)]
    /\ PipelineUnchanged

NextWorker == CallWorker

SpecWorker == InitWorker /\ [][NextWorker]_vars

----------------------------------------------------------------------------
(* Properties *)

HourlyFiles == {"hourly.parquet", "hourly.csv"}
DailyFiles == {"daily_summary.parquet", "daily_summary.csv"}

Failed(i) == task[i] = "done" /\ result[i].kind = "raised"
Empty(i) == task[i] = "done" /\ result[i].kind = "none"
Succeeded(i) == task[i] = "done" /\ result[i].kind = "df"

(* C1: once the worker of one location has failed, no hourly or daily file
   is ever written and the run does not end successfully: the main thread is
   still in compute() or has left it with the worker's exception. *)
C1_FailedWorkerFailsRun ==
    (\E i \in Tasks : Failed(i))
        => /\ DOMAIN sink = {}
           /\ pc \in {"compute", "raised"}
           /\ (Terminated => ExitStatus # 0)

(* One worker failed, every other worker returned rows, and the run ended
   with the exception. *)
C1_Witness ==
    /\ Len(locations) >= 3
    /\ \E i \in Tasks : Failed(i) /\ \A j \in Tasks \ {i} : Succeeded(j)
    /\ pc = "raised"

(* C2: when every worker has failed or returned None, no hourly or daily
   file is written and the run can only end with a non-zero exit status. *)
C2_AllFailAborts ==
    (\A i \in Tasks : Failed(i) \/ Empty(i))
        => /\ DOMAIN sink \cap (HourlyFiles \cup DailyFiles) = {}
           /\ pc \in {"compute", "raised", "exit1"}
           /\ (Terminated => ExitStatus # 0)

(* Several locations, every worker returned None, the run exited with 1. *)
C2_Witness ==
    /\ Len(locations) >= 2
    /\ \A i \in Tasks : Empty(i)
    /\ pc = "exit1"

(* C10: at most 4 fetch workers run at any moment. *)
C10_AtMostFourWorkers == Cardinality(Running) <= 4

(* Four workers run while a fifth task waits for a thread. *)
C10_Witness ==
    /\ Cardinality(Running) = 4
    /\ \E i \in Tasks : task[i] = "pending"

(* The canonical hourly table wherever it is visible: in run_pipeline's
   hands and in the hourly files. *)
HourlyTables ==
    (IF pc \in {"save_hourly", "save_daily", "save_csv", "plots", "done"}
     THEN {hourly_df} ELSE {})
        \cup {sink[f] : f \in DOMAIN sink \cap HourlyFiles}

UniqueNames ==
    \A i, j \in Tasks : locations[i] = locations[j] => i = j

Cities(rows) == {rows[i].city : i \in DOMAIN rows}

(* C5: with unique location names, no two rows of the canonical hourly
   table share (city, time). *)
C5_UniqueCityTime ==
    UniqueNames =>
        \A t \in HourlyTables :
            \A i, j \in DOMAIN t :
                (t[i].city = t[j].city /\ t[i].time = t[j].time) => i = j

(* A finished run over two locations whose table holds, for one city, rows
   at two hours and a row with a null time, and a row of the other city. *)
C5_Witness ==
    /\ pc = "done"
    /\ UniqueNames
    /\ Cardinality(Cities(hourly_df)) = 2
    /\ \E i, j, k \in DOMAIN hourly_df :
          /\ hourly_df[i].city = hourly_df[j].city
          /\ hourly_df[j].city = hourly_df[k].city
          /\ hourly_df[i].time = 0 /\ hourly_df[j].time = 1
          /\ hourly_df[k].time = NaT

(* (city, time) order, null times after every timestamp *)
CityTimeLeq(a, b) ==
    \/ StrLess(a.city, b.city)
    \/ /\ a.city = b.city
       /\ (b.time = NaT \/ (a.time # NaT /\ a.time <= b.time))

(* C7: the canonical hourly table is non-decreasing in (city, time), a null
   time counting as later than every timestamp, whatever the locations'
   order in the configuration and the order in which the workers finish. *)
C7_SortedByCityTime ==
    \A t \in HourlyTables :
        \A i \in 1..(Len(t) - 1) : CityTimeLeq(t[i], t[i + 1])

(* "B" is configured before "Ab", both have rows, and the table is saved. *)
C7_Witness ==
    /\ locations = << <<66>>, <<65, 98>> >>
    /\ "hourly.parquet" \in DOMAIN sink
    /\ Len(hourly_df) >= 4
    /\ Cities(hourly_df) = {<<66>>, <<65, 98>>}
    /\ \E i \in DOMAIN hourly_df : hourly_df[i].time = NaT

(* The daily summary wherever it is visible. *)
DailyTables ==
    (IF pc \in {"save_csv", "plots", "done"} THEN {daily_df} ELSE {})
        \cup {sink[f] : f \in DOMAIN sink \cap DailyFiles}

(* C9: the daily summary has at most one row per (city, date), and exactly
   one row for every city and date on which the city has an hourly row with
   a valid time. *)
C9_OneRowPerCityDate ==
    \A d \in DailyTables :
        /\ \A i, j \in DOMAIN d :
              (d[i].city = d[j].city /\ d[i].date = d[j].date) => i = j
        /\ \A h \in DOMAIN hourly_df :
              hourly_df[h].time # NaT =>
                  Cardinality({i \in DOMAIN d :
                      /\ d[i].city = hourly_df[h].city
                      /\ d[i].date = hourly_df[h].time \div HoursPerDay}) = 1

(* A city has hourly rows on two hours of one date, on another date and
   with a null time; the summary holds its two dates. *)
C9_Witness ==
    /\ pc = "done"
    /\ \E c \in Cities(hourly_df) :
          /\ {0, HoursPerDay - 1, HoursPerDay}
                \subseteq {hourly_df[i].time : i \in {k \in DOMAIN hourly_df : hourly_df[k].city = c}}
          /\ Cardinality({i \in DOMAIN daily_df : daily_df[i].city = c}) = 2
    /\ \E i \in DOMAIN hourly_df : hourly_df[i].time = NaT

(* A finished _worker_fetch_city call whose two requests were answered. *)
WorkerCallDone ==
    /\ call.fn = "_worker_fetch_city"
    /\ call.done
    /\ GetJson(call.archive).ok
    /\ GetJson(call.forecast).ok

ArchiveRows == call.archive.payload.hourly
ForecastRows == call.forecast.payload.hourly

(* C6: when the archive payload and the forecast payload both hold a row
   for a time, the combined frame holds exactly one row for that time, and
   it carries the temperature of the archive's first row for that time. *)
C6_ArchiveWins ==
    WorkerCallDone =>
        \A a \in DOMAIN ArchiveRows, f \in DOMAIN ForecastRows :
            LET t == ToDatetime(ArchiveRows[a].time)
                first == CHOOSE i \in DOMAIN ArchiveRows :
                            /\ ToDatetime(ArchiveRows[i].time) = t
                            /\ \A j \in 1..(i - 1) : ToDatetime(ArchiveRows[j].time) # t
                kept == {i \in DOMAIN call.ret.rows : call.ret.rows[i].time = t}
            IN  ToDatetime(ForecastRows[f].time) = t =>
                    /\ call.ret.kind = "df"
                    /\ Cardinality(kept) = 1
                    /\ \A i \in kept :
                          call.ret.rows[i].temperature_2m
                              = ArchiveRows[first].temperature_2m

(* Archive and forecast hold a row for hour 0 with different temperatures,
   written differently, and the call returned a frame. *)
C6_Witness ==
    /\ WorkerCallDone
    /\ call.ret.kind = "df"
    /\ \E a \in DOMAIN ArchiveRows, f \in DOMAIN ForecastRows :
          /\ ArchiveRows[a].time = [h |-> 0, z |-> FALSE]
          /\ ForecastRows[f].time = [h |-> 0, z |-> TRUE]
          /\ ArchiveRows[a].temperature_2m # ForecastRows[f].temperature_2m

LacksHourly(raw) == ~raw.has_hourly

(* C8: a response without an hourly block raises no error, and when both
   responses are non-empty payloads without an hourly block the worker
   returns None. *)
C8_NoHourlyIsNoError ==
    (WorkerCallDone
        /\ (LacksHourly(call.archive.payload) \/ LacksHourly(call.forecast.payload)))
        => /\ call.ret.kind # "raised"
           /\ (call.archive.payload = NoHourlyPayload
                 /\ call.forecast.payload = NoHourlyPayload)
                 => call.ret.kind = "none"

(* A finished _get_json call. *)
HttpCallDone == call.fn = "_get_json" /\ call.done

NonRetryable(e) == e \in 400..499 /\ e # 429

(* C3: after the first response with a 4xx status other than 429,
   _get_json issues no further request and raises. *)
C3_NonRetryableRaisesAtOnce ==
    HttpCallDone =>
        \A p \in 1..call.ret.wire :
            NonRetryable(EventAt(call.ep.script, p))
                => call.ret.wire = p /\ ~call.ret.ok

(* C4: against an endpoint that answers 429 k times and then 200, k from 0
   to 6, _get_json returns the body of the 200 answer after exactly k + 1
   requests. *)
C4_RateLimitedThenOk ==
    HttpCallDone =>
        \A k \in 0..6 :
            call.ep.script = RateLimited(k) =>
                /\ call.ret.ok
                /\ call.ret.body = call.ep.payload
                /\ call.ret.wire = k + 1

(* Three 429 answers, then 200: success after four requests. *)
C4_Witness ==
    /\ HttpCallDone
    /\ call.ep.script = <<429, 429, 429, 200>>
    /\ call.ret.ok
    /\ call.ret.wire = 4

(* Task i has saved its two raw payloads: _worker_fetch_city returned, which
   it does only after both save_raw_json calls. *)
WroteRawFiles(i) == task[i] = "done" /\ result[i].kind \in {"df", "none"}

RawKinds == {"archive", "forecast"}

(* C11: no raw file is written by two tasks: the tasks of two locations of
   different names write, for each payload kind, files of different names. *)
C11_RawFilesNotShared ==
    \A i, j \in Tasks :
        (locations[i] # locations[j] /\ WroteRawFiles(i) /\ WroteRawFiles(j))
            => \A kind \in RawKinds :
                  RawFileName(locations[i], kind) # RawFileName(locations[j], kind)

====
